---- MODULE Spec2Model ----
(***************************************************************************)
(* Model of scripts/vendor_crates.py: the concurrent aiohttp fetcher       *)
(* (fetch_crates_using_aiohttp / download_crate / the TaskGroup in _run),  *)
(* the fetcher selection loop (fetch_crates / _try_fetcher), the repacker   *)
(* (repack_crates / _add_crate_to_tar / _safe_member_name) and the run as  *)
(* a whole (main / get_workspace_root).                                    *)
(*                                                                         *)
(* Strings that the code inspects character by character (crate file      *)
(* names) are sequences of one-character strings.                          *)
(***************************************************************************)
EXTENDS Integers, Sequences, FiniteSets, TLC

\* ------------------------------------------------------------------ bounds
MaxCrates == 2        \* size of the dependency set handed to a fetcher
MaxRetries == 2       \* VENDOR_CRATES_RETRIES ranges over 0..MaxRetries
MaxConcurrency == 2   \* VENDOR_CRATES_CONCURRENCY ranges over 0..MaxConcurrency
MaxMembers == 2       \* members read from one source archive

\* ------------------------------------------------------------- dependencies
\* The crates a lockfile can name.  "git" is a Crate that is not a FileCrate.
CrateIds == {"a", "b", "slash", "bslash", "abs", "dotdot", "git"}

IsFileCrate(c) == c # "git"

\* FileCrate.filename, as characters.
Filename(c) ==
    CASE c = "a"      -> <<"a">>
      [] c = "b"      -> <<"b">>
      [] c = "slash"  -> <<"d", "/", "x">>
      [] c = "bslash" -> <<"d", "\\", "x">>
      [] c = "abs"    -> <<"/", "x">>
      [] c = "dotdot" -> <<".", ".">>
      [] OTHER        -> <<"g">>

\* ------------------------------------------------------------------- paths
Contains(s, ch) == \E i \in 1..Len(s) : s[i] = ch

\* Path(filename).is_absolute() on POSIX
IsAbsolute(s) == Len(s) > 0 /\ s[1] = "/"

RECURSIVE SplitFrom(_, _, _)
SplitFrom(s, cur, acc) ==
    IF s = <<>>
    THEN (IF cur = <<>> THEN acc ELSE Append(acc, cur))
    ELSE IF Head(s) = "/"
         THEN SplitFrom(Tail(s), <<>>, IF cur = <<>> THEN acc ELSE Append(acc, cur))
         ELSE SplitFrom(Tail(s), Append(cur, Head(s)), acc)

IsNotDot(c) == c # <<".">>

\* pathlib's parsing of a path string: split on "/", drop empty and "." parts,
\* keep ".." parts.
PathParts(s) == SelectSeq(SplitFrom(s, <<>>, <<>>), IsNotDot)

\* args.distdir: a relative directory with one component
DistDir == << <<"D">> >>

\* distdir / filename: an absolute right operand replaces the left one
JoinDistdir(fn) ==
    IF IsAbsolute(fn)
    THEN [abs |-> TRUE, parts |-> PathParts(fn)]
    ELSE [abs |-> FALSE, parts |-> DistDir \o PathParts(fn)]

\* destination.with_suffix(destination.suffix + ".part")
WithPartSuffix(p) ==
    [p EXCEPT !.parts[Len(p.parts)] = p.parts[Len(p.parts)] \o <<".", "p", "a", "r", "t">>]

DestPath(c) == JoinDistdir(Filename(c))
PartPath(c) == WithPartSuffix(DestPath(c))

\* p names an entry of the cache directory itself
IsDirectChild(p) ==
    /\ ~p.abs
    /\ Len(p.parts) = Len(DistDir) + 1
    /\ SubSeq(p.parts, 1, Len(DistDir)) = DistDir
    /\ p.parts[Len(p.parts)] # <<".", ".">>

\* the filename test at the top of download_crate
UnsafeFilename_NoSlashTest(fn) == IsAbsolute(fn) \/ Contains(fn, "\\")

UnsafeFilename(fn) == IsAbsolute(fn) \/ Contains(fn, "/") \/ Contains(fn, "\\")

\* ------------------------------------------------------------------- state
VARIABLES
    crates,        \* the dependency set passed to the fetcher / repacker
    retries,       \* int(os.getenv("VENDOR_CRATES_RETRIES", "4"))
    concurrency,   \* int(os.getenv("VENDOR_CRATES_CONCURRENCY", ...))
    rate_per_sec,  \* int(os.getenv("VENDOR_CRATES_RPS", ...))
    dest0,         \* the cache directory when fetch was called: crate -> state of distdir/filename
    dest,          \* crate -> state of distdir/filename now
    part,          \* crate -> state of distdir/filename.part now
    pc,            \* crate -> where its download_crate task is
    attempt,       \* crate -> the loop variable of download_crate
    hist,          \* crate -> how often it took a permit, a rate token, issued session.get
    fs,            \* crate -> the strongest filesystem call its task has made: none, read, write
    sem_value,     \* asyncio.Semaphore._value
    level,         \* AsyncLimiter._level: tokens taken and not yet leaked
    errors,        \* TaskGroup._errors: the tasks whose exception the group has collected
    aborting,      \* TaskGroup._aborting: every unfinished task has been cancelled
    external,      \* the task running _run was cancelled from outside (SIGINT)
    result,        \* how fetch_crates_using_aiohttp ended
    exc,           \* crate -> the exception that ended its task, if any
    failed_names,  \* the list in RuntimeError("Some downloads failed: ...")
    fetcher_idx,   \* fetch_crates: position of the loop in FETCHER_FUNCS
    invoked,       \* fetch_crates: the fetcher calls made so far, with what each was given and did
    fc_result,     \* how fetch_crates ended
    rp,            \* repack_crates: where it is
    ridx,          \* repack_crates: position in sorted(crates, key=filename)
    nread,         \* _add_crate_to_tar: members read from the open source archive
    last,          \* _add_crate_to_tar: the member read last
    out,           \* the members added to tar_out, in order
    tmp,           \* the NamedTemporaryFile in distdir
    tarball,       \* the file at the final output path
    rerr,          \* the exception that left repack_crates
    tmp_dir,       \* the directory the NamedTemporaryFile was created in
    tarball_dir,   \* the directory of the final output path
    directories,   \* main: args.directory, resolved
    locks,         \* the directories of the filesystem that hold a Cargo.lock
    mpc,           \* main: where it is
    didx,          \* main: position of for directory in args.directory
    widx,          \* get_workspace_root: position in iter_self_and_parents(directory)
    used,          \* the directory whose Cargo.lock each get_workspace_root call read
    pkg_metadata,  \* main: the position of the directory whose metadata was kept, 0 for None
    merr,          \* main: what made it fail
    log            \* main: the calls made after the loop, each with the crates it was given

fetchVars == <<retries, concurrency, rate_per_sec, dest0, dest, part, pc, attempt, hist,
               fs, sem_value, level, errors, aborting, external, result, exc, failed_names>>

strategyVars == <<fetcher_idx, invoked, fc_result>>

repackVars == <<rp, ridx, nread, last, out, tmp, tarball, rerr, tmp_dir, tarball_dir>>

mainVars == <<directories, locks, mpc, didx, widx, used, pkg_metadata, merr, log>>

vars == <<crates, fetchVars, strategyVars, repackVars, mainVars>>

\* file_crates = [crate for crate in crates if isinstance(crate, FileCrate)]
FileCrates(cs) == {c \in cs : IsFileCrate(c)}

Units == FileCrates(crates)

DestStates == {"absent", "empty", "nonempty"}
PartStates == {"absent", "open_empty", "open_data"}
Terminal == {"done", "failed", "rejected", "cancelled"}

DependencySets == {cs \in SUBSET CrateIds : Cardinality(cs) <= MaxCrates}

\* A cache directory fetch can be called on: no .part file; distdir/.. is a
\* directory, hence present with non-zero size; nothing exists at the paths
\* an unsafe filename points to.
InitialCaches(cs) ==
    {d \in [FileCrates(cs) -> DestStates] :
        \A c \in FileCrates(cs) :
            /\ (c = "dotdot") => d[c] = "nonempty"
            /\ (c \in {"slash", "bslash", "abs"}) => d[c] = "absent"}

\* the values of VENDOR_CRATES_RPS considered
Rates == {1}

NoException == [type |-> "none"]

NoHist == [permits |-> 0, tokens |-> 0, requests |-> 0]

NoMember == [crate |-> "none", name |-> <<>>, type |-> "none"]

\* fetch_crates is not running
StrategyIdle ==
    /\ fetcher_idx = 0
    /\ invoked = <<>>
    /\ fc_result = "idle"

\* repack_crates is not running
RepackIdle ==
    /\ rp = "idle"
    /\ ridx = 0
    /\ nread = 0
    /\ last = NoMember
    /\ out = <<>>
    /\ tmp = "absent"
    /\ tarball = "absent"
    /\ rerr = "none"
    /\ tmp_dir = <<>>
    /\ tarball_dir = DistDir

\* main is not running
MainIdle ==
    /\ directories = <<>>
    /\ locks = {}
    /\ mpc = "idle"
    /\ didx = 0
    /\ widx = 0
    /\ used = <<>>
    /\ pkg_metadata = 0
    /\ merr = "none"
    /\ log = <<>>

Init ==
    /\ StrategyIdle
    /\ RepackIdle
    /\ MainIdle
    /\ crates \in DependencySets
    /\ retries \in 0..MaxRetries
    /\ concurrency \in 0..MaxConcurrency
    /\ rate_per_sec \in Rates
    /\ dest0 \in InitialCaches(crates)
    /\ dest = dest0
    /\ part = [c \in FileCrates(crates) |-> "absent"]
    /\ pc = [c \in FileCrates(crates) |-> "created"]
    /\ attempt = [c \in FileCrates(crates) |-> 0]
    /\ hist = [c \in FileCrates(crates) |-> NoHist]
    /\ fs = [c \in FileCrates(crates) |-> "none"]
    /\ sem_value = concurrency
    /\ level = 0
    /\ errors = {}
    /\ aborting = FALSE
    /\ external = FALSE
    /\ result = "call"
    /\ exc = [c \in FileCrates(crates) |-> NoException]
    /\ failed_names = {}

\* ------------------------------------------------- fetch_crates_using_aiohttp
\* if not (file_crates := [...]): return      -- otherwise asyncio.run(_run()),
\* whose TaskGroup creates one download_crate task per file crate.
FetchCall ==
    /\ result = "call"
    /\ result' = IF Units = {} THEN "returned" ELSE "running"
    /\ UNCHANGED <<strategyVars, repackVars, mainVars, crates, retries, concurrency, rate_per_sec, dest0, dest, part, pc, attempt,
                   hist, fs, sem_value, level, errors, aborting, external, exc, failed_names>>

\* A task the group has cancelled raises CancelledError at the await it is
\* suspended in: that is the only step left to it.
CancelPending(u) == aborting /\ pc[u] \notin Terminal

Running(u) == result = "running" /\ u \in Units /\ ~CancelPending(u)

\* destination.exists() and destination.stat().st_size > 0
AlreadyPresent_Never(d) == FALSE

AlreadyPresent(d) == d = "nonempty"

\* range(1, retries + 1) has a first element
HasAttempt(r) == r >= 1

\* download_crate up to its first attempt: the filename test, the skip of a
\* file already present, the entry into the retry loop.
Begin(u) ==
    /\ Running(u)
    /\ pc[u] = "created"
    /\ IF UnsafeFilename(Filename(u))
       THEN /\ pc' = [pc EXCEPT ![u] = "rejected"]
            /\ exc' = [exc EXCEPT ![u] = [type |-> "ValueError"]]
            /\ UNCHANGED <<fs, attempt>>
       ELSE /\ fs' = [fs EXCEPT ![u] = "read"]
            /\ exc' = exc
            /\ IF AlreadyPresent(dest[u])
               THEN pc' = [pc EXCEPT ![u] = "done"] /\ attempt' = attempt
               ELSE IF HasAttempt(retries)
                    THEN /\ pc' = [pc EXCEPT ![u] = "wait_sem"]
                         /\ attempt' = [attempt EXCEPT ![u] = 1]
                    ELSE pc' = [pc EXCEPT ![u] = "done"] /\ attempt' = attempt
    /\ UNCHANGED <<strategyVars, repackVars, mainVars, crates, retries, concurrency, rate_per_sec, dest0, dest, part, hist,
                   sem_value, level, errors, aborting, external, result, failed_names>>

\* asyncio.Semaphore.locked()
SemaphoreLocked_Never(v) == FALSE

SemaphoreLocked(v) == v <= 0

\* async with semaphore: __aenter__
AcquireSemaphore(u) ==
    /\ Running(u)
    /\ pc[u] = "wait_sem"
    /\ ~SemaphoreLocked(sem_value)
    /\ sem_value' = sem_value - 1
    /\ pc' = [pc EXCEPT ![u] = "wait_limiter"]
    /\ hist' = [hist EXCEPT ![u].permits = @ + 1]
    /\ UNCHANGED <<strategyVars, repackVars, mainVars, crates, retries, concurrency, rate_per_sec, dest0, dest, part, attempt,
                   fs, level, errors, aborting, external, result, exc, failed_names>>

\* AsyncLimiter.has_capacity(1)
HasCapacity(l) == l + 1 <= rate_per_sec

\* async with limiter: __aenter__, then session.get(...) is issued
AcquireLimiter(u) ==
    /\ Running(u)
    /\ pc[u] = "wait_limiter"
    /\ HasCapacity(level)
    /\ level' = level + 1
    /\ pc' = [pc EXCEPT ![u] = "request"]
    /\ hist' = [hist EXCEPT ![u].tokens = @ + 1, ![u].requests = @ + 1]
    /\ UNCHANGED <<strategyVars, repackVars, mainVars, crates, retries, concurrency, rate_per_sec, dest0, dest, part, attempt,
                   fs, sem_value, errors, aborting, external, result, exc, failed_names>>

\* AsyncLimiter._leak: the bucket drains as time passes
LimiterLeak ==
    /\ result = "running"
    /\ level > 0
    /\ level' = level - 1
    /\ UNCHANGED <<strategyVars, repackVars, mainVars, crates, retries, concurrency, rate_per_sec, dest0, dest, part, pc, attempt,
                   hist, fs, sem_value, errors, aborting, external, result, exc, failed_names>>

\* temp_file.unlink(missing_ok=True)
Unlink_Skipped(p) == p

Unlink(p) == "absent"

\* a handler that gives up at the first failed attempt
FailAttempt_NoRetry(u) ==
    /\ sem_value' = sem_value + 1
    /\ part' = [part EXCEPT ![u] = Unlink(@)]
    /\ pc' = [pc EXCEPT ![u] = "failed"]
    /\ exc' = [exc EXCEPT ![u] = [type |-> "DownloadError", crate |-> u]]

\* The except Exception handler of an attempt, entered after the async with
\* block has released the permit: unlink the .part file, then raise
\* DownloadError on the last attempt or sleep.
FailAttempt(u) ==
    /\ sem_value' = sem_value + 1
    /\ part' = [part EXCEPT ![u] = Unlink(@)]
    /\ IF attempt[u] = retries
       THEN /\ pc' = [pc EXCEPT ![u] = "failed"]
            /\ exc' = [exc EXCEPT ![u] = [type |-> "DownloadError", crate |-> u]]
       ELSE /\ pc' = [pc EXCEPT ![u] = "backoff"]
            /\ exc' = exc

\* What session.get can give: a good status, one of 429/500/502/503/504,
\* another error status (raise_for_status), or a connection error.
ResponseOutcomes == {"ok", "retryable_status", "error_status", "connection_error"}

\* The response arrives; on a good status the .part file is opened, which a
\* disk error may prevent.
Response(u, outcome, opened) ==
    /\ Running(u)
    /\ pc[u] = "request"
    /\ IF outcome = "ok" /\ opened
       THEN /\ pc' = [pc EXCEPT ![u] = "stream"]
            /\ part' = [part EXCEPT ![u] = "open_empty"]
            /\ fs' = [fs EXCEPT ![u] = "write"]
            /\ UNCHANGED <<sem_value, exc>>
       ELSE /\ FailAttempt(u)
            /\ fs' = [fs EXCEPT ![u] = "write"]
    /\ UNCHANGED <<strategyVars, repackVars, mainVars, crates, retries, concurrency, rate_per_sec, dest0, dest, attempt, hist,
                   level, errors, aborting, external, result, failed_names>>

\* output_file.write(chunk) of a non-empty chunk
Chunk(u) ==
    /\ Running(u)
    /\ pc[u] = "stream"
    /\ part[u] = "open_empty"
    /\ part' = [part EXCEPT ![u] = "open_data"]
    /\ fs' = [fs EXCEPT ![u] = "write"]
    /\ UNCHANGED <<strategyVars, repackVars, mainVars, crates, retries, concurrency, rate_per_sec, dest0, dest, pc, attempt, hist,
                   sem_value, level, errors, aborting, external, result, exc, failed_names>>

\* The body ends: the file is closed and os.replace(temp_file, destination)
\* is called, which the filesystem may refuse.
StreamEnd(u, replaced) ==
    /\ Running(u)
    /\ pc[u] = "stream"
    /\ IF replaced
       THEN /\ dest' = [dest EXCEPT ![u] = IF part[u] = "open_data" THEN "nonempty" ELSE "empty"]
            /\ part' = [part EXCEPT ![u] = "absent"]
            /\ pc' = [pc EXCEPT ![u] = "done"]
            /\ sem_value' = sem_value + 1
            /\ fs' = [fs EXCEPT ![u] = "write"]
            /\ exc' = exc
       ELSE /\ FailAttempt(u)
            /\ fs' = [fs EXCEPT ![u] = "write"]
            /\ dest' = dest
    /\ UNCHANGED <<strategyVars, repackVars, mainVars, crates, retries, concurrency, rate_per_sec, dest0, attempt, hist,
                   level, errors, aborting, external, result, failed_names>>

\* The connection breaks while the body is read, or a write fails
StreamError(u, cause) ==
    /\ Running(u)
    /\ pc[u] = "stream"
    /\ FailAttempt(u)
    /\ fs' = [fs EXCEPT ![u] = "write"]
    /\ UNCHANGED <<strategyVars, repackVars, mainVars, crates, retries, concurrency, rate_per_sec, dest0, dest, attempt, hist,
                   level, errors, aborting, external, result, failed_names>>

\* await asyncio.sleep(backoff) returns; the loop goes to the next attempt
BackoffDone(u) ==
    /\ Running(u)
    /\ pc[u] = "backoff"
    /\ pc' = [pc EXCEPT ![u] = "wait_sem"]
    /\ attempt' = [attempt EXCEPT ![u] = @ + 1]
    /\ UNCHANGED <<strategyVars, repackVars, mainVars, crates, retries, concurrency, rate_per_sec, dest0, dest, part, hist,
                   fs, sem_value, level, errors, aborting, external, result, exc, failed_names>>

\* a cancellation that leaves the async with block without __aexit__
HoldsPermit_Never(u) == FALSE

HoldsPermit(u) == pc[u] \in {"wait_limiter", "request", "stream"}

\* a handler that does what its comment says: "Clean partials and retry if we
\* have attempts left"
OnCancelled_Retry(a, r) == IF a < r THEN "backoff" ELSE "failed"

\* except asyncio.CancelledError: ... finally: raise -- the task ends cancelled
OnCancelled(a, r) == "cancelled"

\* CancelledError is raised at the task's await.  Inside the try block the
\* async with releases the permit and the except asyncio.CancelledError
\* handler unlinks the .part file; in the sleep of the except Exception
\* handler it just propagates.
DeliverCancel(u) ==
    /\ result = "running"
    /\ u \in Units
    /\ CancelPending(u)
    /\ pc[u] \in {"wait_sem", "wait_limiter", "request", "stream", "backoff"}
    /\ pc' = [pc EXCEPT ![u] = OnCancelled(attempt[u], retries)]
    /\ exc' = [exc EXCEPT ![u] = [type |-> "CancelledError"]]
    /\ sem_value' = IF HoldsPermit(u) THEN sem_value + 1 ELSE sem_value
    /\ IF pc[u] = "backoff"
       THEN UNCHANGED <<part, fs>>
       ELSE /\ part' = [part EXCEPT ![u] = Unlink(@)]
            /\ fs' = [fs EXCEPT ![u] = "write"]
    /\ UNCHANGED <<strategyVars, repackVars, mainVars, crates, retries, concurrency, rate_per_sec, dest0, dest, attempt, hist,
                   level, errors, aborting, external, result, failed_names>>

\* ----------------------------------------------------------- the TaskGroup
\* Every task runs its first step before any done callback or signal is
\* handled.
AllStarted == \A u \in Units : pc[u] # "created"

\* TaskGroup._abort as _on_task_done calls it
AbortOnError(a) == TRUE

\* TaskGroup._on_task_done for a task that ended with an exception other than
\* CancelledError: collect it and abort the group, cancelling every task that
\* is not done.
OnTaskDone(u) ==
    /\ result = "running"
    /\ u \in Units
    /\ AllStarted
    /\ pc[u] \in {"failed", "rejected"}
    /\ u \notin errors
    /\ errors' = errors \cup {u}
    /\ aborting' = AbortOnError(aborting)
    /\ UNCHANGED <<strategyVars, repackVars, mainVars, crates, retries, concurrency, rate_per_sec, dest0, dest, part, pc, attempt,
                   hist, fs, sem_value, level, external, result, exc, failed_names>>

\* The task running _run is cancelled while it waits in TaskGroup.__aexit__,
\* which aborts the group.
ExternalCancel ==
    /\ result = "running"
    /\ AllStarted
    /\ ~aborting
    /\ aborting' = TRUE
    /\ external' = TRUE
    /\ UNCHANGED <<strategyVars, repackVars, mainVars, crates, retries, concurrency, rate_per_sec, dest0, dest, part, pc, attempt,
                   hist, fs, sem_value, level, errors, result, exc, failed_names>>

\* TaskGroup.__aexit__ leaves its wait: no task is left in TaskGroup._tasks
TasksEmpty_NoJoin == errors # {} \/ \A u \in Units : pc[u] \in Terminal

TasksEmpty ==
    \A u \in Units : pc[u] \in Terminal /\ (pc[u] \in {"failed", "rejected"} => u \in errors)

DownloadErrors == {u \in errors : exc[u].type = "DownloadError"}

\* The group ends: nothing raised, CancelledError, or the exception group,
\* whose DownloadErrors except* turns into RuntimeError("Some downloads
\* failed: [...]") and whose other exceptions pass through.
GroupExit ==
    /\ result = "running"
    /\ TasksEmpty
    /\ result' = IF errors = {}
                 THEN (IF external THEN "cancelled" ELSE "returned")
                 ELSE IF DownloadErrors # {} THEN "downloads_failed" ELSE "unhandled_group"
    /\ failed_names' = {Filename(exc[u].crate) : u \in DownloadErrors}
    /\ UNCHANGED <<strategyVars, repackVars, mainVars, crates, retries, concurrency, rate_per_sec, dest0, dest, part, pc, attempt,
                   hist, fs, sem_value, level, errors, aborting, external, exc>>

Next ==
    \/ FetchCall
    \/ \E u \in Units : Begin(u)
    \/ \E u \in Units : AcquireSemaphore(u)
    \/ \E u \in Units : AcquireLimiter(u)
    \/ LimiterLeak
    \/ \E u \in Units, o \in ResponseOutcomes, opened \in BOOLEAN : Response(u, o, opened)
    \/ \E u \in Units : Chunk(u)
    \/ \E u \in Units, replaced \in BOOLEAN : StreamEnd(u, replaced)
    \/ \E u \in Units, cause \in {"connection_error", "disk_error"} : StreamError(u, cause)
    \/ \E u \in Units : BackoffDone(u)
    \/ \E u \in Units : DeliverCancel(u)
    \/ \E u \in Units : OnTaskDone(u)
    \/ ExternalCancel
    \/ GroupExit

Spec == Init /\ [][Next]_vars

\* ------------------------------------------------------- claims on the fetch
Ended == result \notin {"call", "running"}

InFlight == {u \in Units : pc[u] \in {"request", "stream"}}

\* C1: when fetch returns normally every file-backed dependency is present in
\* the cache directory, and when it fails the error names every dependency
\* whose download failed permanently.
C1_ReturnMeansPresent ==
    /\ result = "returned" => \A c \in FileCrates(crates) : dest[c] # "absent"
    /\ (Ended /\ result # "returned") =>
           \A u \in Units : pc[u] = "failed" => Filename(u) \in failed_names

\* C2: at most `concurrency` units have a request open or are streaming a
\* body to their .part file.
C2_ConcurrencyBound == Cardinality(InFlight) <= concurrency

\* as many units in flight as the limit allows, while a retrying unit waits
C2_Witness ==
    /\ concurrency >= 1
    /\ Cardinality(InFlight) = concurrency
    /\ \E u \in Units : pc[u] = "wait_sem" /\ attempt[u] >= 2

\* C3: a permanent failure of one unit does not cancel its siblings; a unit
\* is cancelled only when the fetch itself is cancelled from outside.
C3_SiblingsNotCancelled == \A u \in Units : pc[u] = "cancelled" => external

\* C4: when fetch has returned or raised, every unit is terminal: none is
\* waiting, requesting, streaming, sleeping or holding a permit or a .part file.
C4_EndsAfterAllTerminal ==
    Ended => \A u \in Units : pc[u] \in Terminal /\ ~HoldsPermit(u) /\ part[u] = "absent"

\* the group failure was raised with one unit failed and another cancelled
C4_Witness ==
    /\ result = "downloads_failed"
    /\ \E u \in Units : pc[u] = "failed"
    /\ \E u \in Units : pc[u] = "cancelled"

\* the units that go down the download path: safe name, file not yet present
Downloads(u) == ~UnsafeFilename(Filename(u)) /\ dest0[u] # "nonempty"

\* C5: a unit that is not cancelled either succeeds at its k-th request,
\* 1 <= k <= retries, having issued exactly k, or fails after exactly
\* `retries` requests with a DownloadError carrying its crate and no .part file.
C5_RetryOutcome ==
    \A u \in Units :
        (Downloads(u) /\ pc[u] \in {"done", "failed"}) =>
            \/ /\ pc[u] = "done"
               /\ hist[u].requests = attempt[u]
               /\ attempt[u] \in 1..retries
               /\ dest[u] # "absent"
            \/ /\ pc[u] = "failed"
               /\ hist[u].requests = retries
               /\ exc[u] = [type |-> "DownloadError", crate |-> u]
               /\ part[u] = "absent"

\* C6: once fetch has ended no .part file is left, and a destination file
\* changes only in the step that renames a streamed .part file onto it.
C6_NoPartDebris ==
    /\ [](Ended => \A u \in Units : part[u] = "absent")
    /\ [][\A u \in Units :
            dest'[u] # dest[u] =>
                /\ pc[u] = "stream" /\ pc'[u] = "done"
                /\ part[u] # "absent" /\ part'[u] = "absent"
                /\ dest'[u] = (IF part[u] = "open_data" THEN "nonempty" ELSE "empty")]_vars

\* fetch ended after one unit failed permanently and another was cancelled
\* after it had touched its .part file
C6_Witness ==
    /\ Ended
    /\ \E u \in Units : pc[u] = "failed" /\ fs[u] = "write"
    /\ \E u \in Units : pc[u] = "cancelled" /\ fs[u] = "write"

\* C7: a unit whose destination is present and non-empty ends at once, with
\* no permit, no rate token and no request; a fetch over a cache that holds
\* every destination non-empty issues no request and leaves the cache as it was.
C7_IdempotentSkip ==
    /\ \A u \in Units :
           (~UnsafeFilename(Filename(u)) /\ dest0[u] = "nonempty") =>
               /\ pc[u] \in {"created", "done"}
               /\ hist[u] = NoHist
               /\ fs[u] # "write"
    /\ (\A u \in Units : dest0[u] = "nonempty") =>
           /\ \A u \in Units : hist[u].requests = 0
           /\ dest = dest0
           /\ \A u \in Units : part[u] = "absent"

\* a fetch over two crates that were both present has returned
C7_Witness ==
    /\ result = "returned"
    /\ retries >= 1
    /\ Cardinality(Units) >= 2
    /\ \A u \in Units : dest0[u] = "nonempty" /\ pc[u] = "done"

\* C8: a unit whose filename is absolute or contains "/" or "\" ends with no
\* filesystem call and no request; every file a unit creates, renames or
\* deletes is a direct child of the cache directory.
C8_UnsafeFilenameRejected ==
    /\ \A u \in Units :
           (Filename(u)[1] = "/" \/ Contains(Filename(u), "/") \/ Contains(Filename(u), "\\")) =>
               /\ pc[u] \in {"created", "rejected"}
               /\ fs[u] = "none"
               /\ hist[u] = NoHist
    /\ \A u \in Units :
           fs[u] = "write" => IsDirectChild(DestPath(u)) /\ IsDirectChild(PartPath(u))

\* an unsafe filename was rejected while another unit wrote to the cache
C8_Witness ==
    /\ \E u \in Units : pc[u] = "rejected"
    /\ \E u \in Units : fs[u] = "write"

\* ------------------------------------------------------------ fetch_crates
\* fetch_crates_using_aiohttp is not running
FetchIdle ==
    /\ retries = 0 /\ concurrency = 0 /\ rate_per_sec = 1
    /\ dest0 = <<>> /\ dest = <<>> /\ part = <<>> /\ pc = <<>> /\ attempt = <<>>
    /\ hist = <<>> /\ fs = <<>> /\ exc = <<>>
    /\ sem_value = 0 /\ level = 0
    /\ errors = {} /\ aborting = FALSE /\ external = FALSE
    /\ result = "idle" /\ failed_names = {}

FETCHER_FUNCS == <<"aiohttp", "aria2", "wget">>

\* What a call of a Fetcher can do: return, raise FileNotFoundError, raise
\* anything else.  _try_fetcher treats its func as any Fetcher, and so does
\* this part of the model: each position of FETCHER_FUNCS is given all three.
FetcherOutcomes == {"returned", "FileNotFoundError", "other_error"}

\* _try_fetcher: True, False, or the exception passes through
TryFetcher_CatchAll(outcome) == IF outcome = "returned" THEN "True" ELSE "False"

TryFetcher(outcome) ==
    CASE outcome = "returned"          -> "True"
      [] outcome = "FileNotFoundError" -> "False"
      [] OTHER                         -> "raise"

\* fetch_crates is entered
FetchCratesStart ==
    /\ fc_result = "idle"
    /\ fc_result' = "running"
    /\ fetcher_idx' = 1
    /\ UNCHANGED <<fetchVars, repackVars, invoked>>

\* fetch_crates is called
FetchCratesCall ==
    /\ FetchCratesStart
    /\ UNCHANGED <<crates, mainVars>>

\* one iteration of for fetcher in FETCHER_FUNCS
TryNextFetcher(outcome) ==
    /\ fc_result = "running"
    /\ fetcher_idx <= Len(FETCHER_FUNCS)
    /\ invoked' = Append(invoked, [func |-> FETCHER_FUNCS[fetcher_idx], crates |-> crates,
                                    outcome |-> outcome])
    /\ CASE TryFetcher(outcome) = "True"  -> fc_result' = "returned" /\ fetcher_idx' = fetcher_idx
         [] TryFetcher(outcome) = "False" -> fc_result' = fc_result /\ fetcher_idx' = fetcher_idx + 1
         [] OTHER                         -> fc_result' = "raised" /\ fetcher_idx' = fetcher_idx
    /\ UNCHANGED <<crates, fetchVars, repackVars, mainVars>>

\* the loop ran out: raise RuntimeError("No supported fetcher found ...")
NoFetcherFound ==
    /\ fc_result = "running"
    /\ fetcher_idx > Len(FETCHER_FUNCS)
    /\ fc_result' = "no_fetcher"
    /\ UNCHANGED <<crates, fetchVars, repackVars, mainVars, fetcher_idx, invoked>>

StrategyInit ==
    /\ crates \in DependencySets
    /\ MainIdle
    /\ FetchIdle
    /\ RepackIdle
    /\ StrategyIdle

StrategyNext ==
    \/ FetchCratesCall
    \/ \E o \in FetcherOutcomes : TryNextFetcher(o)
    \/ NoFetcherFound

SpecFetchCrates == StrategyInit /\ [][StrategyNext]_vars

CharCode(ch) ==
    CASE ch = "." -> 46 [] ch = "/" -> 47 [] ch = "1" -> 49 [] ch = "\\" -> 92
      [] ch = "a" -> 97 [] ch = "b" -> 98 [] ch = "d" -> 100 [] ch = "g" -> 103
      [] ch = "x" -> 120 [] OTHER -> 0

\* Python's s < t on strings
RECURSIVE StrLess(_, _)
StrLess(s, t) ==
    IF t = <<>> THEN FALSE
    ELSE IF s = <<>> THEN TRUE
    ELSE IF Head(s) = Head(t) THEN StrLess(Tail(s), Tail(t))
    ELSE CharCode(Head(s)) < CharCode(Head(t))

\* sorted(crates, key=lambda crate: crate.filename)
SortedCrates(cs) ==
    CHOOSE q \in [1..Cardinality(cs) -> cs] :
        /\ \A i, j \in 1..Cardinality(cs) : i # j => q[i] # q[j]
        /\ \A i, j \in 1..Cardinality(cs) : i < j => StrLess(Filename(q[i]), Filename(q[j]))

\* crate.get_package_directory(distdir): "<name>-<version>", one component
PackageDir(c) == <<c, "1">>

\* --prefix
Prefix == <<"v">>

\* The members a source archive of crate c can hold: its package directory,
\* entries of every kind below it, and names that are not below it.
Members(c) ==
    LET P == PackageDir(c) IN
    { [crate |-> c, name |-> P,                             type |-> "dir"],
      [crate |-> c, name |-> P \o <<"/", "x">>,             type |-> "reg"],
      [crate |-> c, name |-> P \o <<"/", ".", "/", "x">>,   type |-> "reg"],
      [crate |-> c, name |-> P \o <<"/", "l">>,             type |-> "sym"],
      [crate |-> c, name |-> P \o <<"/", "h">>,             type |-> "lnk"],
      [crate |-> c, name |-> P \o <<"/", "f">>,             type |-> "fifo"],
      [crate |-> c, name |-> P \o <<"/", ".", ".", "/", "x">>, type |-> "reg"],
      [crate |-> c, name |-> <<"x">>,                       type |-> "reg"],
      [crate |-> c, name |-> <<".", ".", "/", "x">>,        type |-> "dir"],
      [crate |-> c, name |-> <<"/">> \o P \o <<"/", "x">>,  type |-> "reg"],
      [crate |-> c, name |-> P \o <<"x", "/", "y">>,        type |-> "reg"] }

\* PurePosixPath(name)
PurePosixPath(name) == [abs |-> IsAbsolute(name), parts |-> PathParts(name)]

\* PurePosixPath.is_relative_to: the other path's parts lead this path's parts
IsRelativeTo(path, dir) ==
    /\ ~path.abs
    /\ Len(path.parts) >= Len(dir.parts)
    /\ SubSeq(path.parts, 1, Len(dir.parts)) = dir.parts

\* str() of a relative or absolute PurePosixPath
RECURSIVE JoinParts(_)
JoinParts(parts) ==
    IF parts = <<>> THEN <<>>
    ELSE IF Len(parts) = 1 THEN parts[1]
    ELSE parts[1] \o <<"/">> \o JoinParts(Tail(parts))

PathStr(path) ==
    IF path.abs THEN <<"/">> \o JoinParts(path.parts)
    ELSE IF path.parts = <<>> THEN <<".">> ELSE JoinParts(path.parts)

\* _safe_member_name: "refuse" stands for the ValueError
SafeMemberName(name, crate_dir) ==
    IF ~IsRelativeTo(PurePosixPath(name), PurePosixPath(crate_dir))
    THEN "refuse"
    ELSE Prefix \o <<"/">> \o PathStr(PurePosixPath(name))

\* crate.checksum, the checksum the lockfile pins
Checksum(c) == CASE c = "a" -> "sha256-a" [] c = "b" -> "sha256-b" [] OTHER -> "sha256-other"

\* a manifest put next to the package roots instead of inside one
ChecksumMember_AtPrefix(c) ==
    [crate |-> c,
     name |-> Prefix \o <<"/">> \o <<".cargo-checksum.json">>,
     type |-> "reg", content |-> Checksum(c)]

\* the checksum member _add_crate_to_tar appends:
\* {"package": crate.checksum, "files": {}}
ChecksumMember(c) ==
    [crate |-> c,
     name |-> Prefix \o <<"/">> \o PackageDir(c) \o <<"/">> \o <<".cargo-checksum.json">>,
     type |-> "reg", content |-> Checksum(c)]

\* for crate in crates: the set taken in some other order than the sorted one
RepackOrder_Unsorted ==
    LET q == SortedCrates(crates) IN [i \in DOMAIN q |-> q[Len(q) + 1 - i]]

RepackOrder == SortedCrates(crates)

\* NamedTemporaryFile(mode="wb", dir=distdir, delete=False): the directory the
\* temporary file is created in
TempDir(distdir, tarball_parent) == distdir

\* except BaseException: Path(tmp_file.name).unlink(missing_ok=True); raise
RepackFail(kind) ==
    /\ rp' = "raised"
    /\ rerr' = kind
    /\ tmp' = "absent"

\* repack_crates is called: NamedTemporaryFile(dir=distdir, delete=False),
\* then the xz and tar streams are opened on it
RepackStart ==
    /\ rp = "idle"
    /\ rp' = "loop"
    /\ ridx' = 1
    /\ tmp' = "partial"
    /\ tmp_dir' = TempDir(DistDir, tarball_dir)
    /\ UNCHANGED <<fetchVars, strategyVars, tarball_dir, nread, last, out, tarball, rerr>>

\* repack_crates is called
RepackCall ==
    /\ RepackStart
    /\ UNCHANGED <<crates, mainVars>>

\* the for loop takes the next crate: a crate that is no FileCrate is passed
\* over, a FileCrate's archive is opened with tarfile.open
NextCrate(opened) ==
    /\ rp = "loop"
    /\ ridx <= Len(RepackOrder)
    /\ IF ~IsFileCrate(RepackOrder[ridx])
       THEN /\ ridx' = ridx + 1
            /\ UNCHANGED <<rp, rerr, tmp, nread>>
       ELSE IF opened
            THEN /\ rp' = "members"
                 /\ nread' = 0
                 /\ UNCHANGED <<ridx, rerr, tmp>>
            ELSE /\ RepackFail("read_error")
                 /\ UNCHANGED <<ridx, nread>>
    /\ UNCHANGED <<crates, fetchVars, strategyVars, mainVars, tmp_dir, tarball_dir, last, out, tarball>>

\* only regular files forwarded, every other member passed over
MemberContent_RegOnly(type) == IF type = "reg" THEN "data" ELSE "skip"

\* what _add_crate_to_tar adds for a member of a type: the header alone
\* (isdir, issym, islnk), header and data (isreg), or nothing
MemberContent(type) ==
    CASE type \in {"dir", "sym", "lnk"} -> "none"
      [] type = "reg"                   -> "data"
      [] OTHER                          -> "skip"

\* for info in tar_in: one member m
ReadMember(m) ==
    /\ rp = "members"
    /\ nread < MaxMembers
    /\ m \in Members(RepackOrder[ridx])
    /\ last' = m
    /\ nread' = nread + 1
    /\ LET new_name == SafeMemberName(m.name, PackageDir(RepackOrder[ridx])) IN
       IF new_name = "refuse"
       THEN RepackFail("path_escape") /\ out' = out
       ELSE IF MemberContent(m.type) = "skip"
            THEN UNCHANGED <<rp, rerr, tmp, out>>
            ELSE /\ out' = Append(out, [crate |-> m.crate, name |-> new_name,
                                        type |-> m.type,
                                        content |-> MemberContent(m.type)])
                 /\ UNCHANGED <<rp, rerr, tmp>>
    /\ UNCHANGED <<crates, fetchVars, strategyVars, mainVars, tmp_dir, tarball_dir, ridx, tarball>>

\* the source archive ends: the checksum member is appended and
\* _add_crate_to_tar returns, its loop variable info with it
EndOfArchive ==
    /\ rp = "members"
    /\ out' = Append(out, ChecksumMember(RepackOrder[ridx]))
    /\ rp' = "loop"
    /\ ridx' = ridx + 1
    /\ nread' = 0
    /\ last' = NoMember
    /\ UNCHANGED <<crates, fetchVars, strategyVars, mainVars, tmp_dir, tarball_dir, tmp, tarball, rerr>>

\* the loop is over: the tar stream, the xz stream and the file are closed
CloseStreams(closed) ==
    /\ rp = "loop"
    /\ ridx > Len(RepackOrder)
    /\ IF closed
       THEN rp' = "closed" /\ tmp' = "complete" /\ rerr' = rerr
       ELSE RepackFail("close_error")
    /\ UNCHANGED <<crates, fetchVars, strategyVars, mainVars, tmp_dir, tarball_dir, ridx, nread, last, out, tarball>>

\* the place of Path(tmp_file.name).rename(tarball): after both with blocks
RenameReady_InsideWith(r) == r \in {"loop", "closed"}

RenameReady(r) == r = "closed"

\* Path(tmp_file.name).rename(tarball), outside the try block: the file at
\* the output path becomes what the temporary file holds
Rename(renamed) ==
    /\ RenameReady(rp)
    /\ IF renamed
       THEN rp' = "returned" /\ tmp' = "absent" /\ tarball' = tmp /\ rerr' = rerr
       ELSE rp' = "raised" /\ rerr' = "rename_error" /\ UNCHANGED <<tmp, tarball>>
    /\ UNCHANGED <<crates, fetchVars, strategyVars, mainVars, tmp_dir, tarball_dir, ridx, nread, last, out>>

\* reading a member's data from the source archive (tar_in.extractfile,
\* copyfileobj) or writing to tar_out (addfile) raises
MemberIOError ==
    /\ rp = "members"
    /\ RepackFail("io_error")
    /\ UNCHANGED <<crates, fetchVars, strategyVars, mainVars, tmp_dir, tarball_dir, ridx, nread, last, out,
                   tarball>>

\* the process is killed while repack_crates runs: no handler runs, the files
\* stay as they are (out is what the temporary file holds), the locals of
\* the process are gone
Kill ==
    /\ rp \in {"loop", "members", "closed"}
    /\ rp' = "killed"
    /\ ridx' = 0 /\ nread' = 0 /\ last' = NoMember
    /\ UNCHANGED <<crates, fetchVars, strategyVars, mainVars, tmp_dir, tarball_dir, out,
                   tmp, tarball, rerr>>

\* the directories an output path can lie in: distdir (the default of
\* --output) or any other (-o)
OutputDirs == {DistDir, << <<"o">> >>}

\* the crates repack_crates is given: "a" and "b" are in the cache
RepackInit ==
    /\ crates \in {cs \in SUBSET {"a", "b", "git"} : Cardinality(cs) <= MaxCrates}
    /\ FetchIdle
    /\ StrategyIdle
    /\ MainIdle
    /\ rp = "idle" /\ ridx = 0 /\ nread = 0 /\ last = NoMember /\ out = <<>>
    /\ tmp = "absent" /\ rerr = "none"
    /\ tarball \in {"absent", "old"}
    /\ tmp_dir = <<>>
    /\ tarball_dir \in OutputDirs

RepackNext ==
    \/ RepackCall
    \/ \E opened \in BOOLEAN : NextCrate(opened)
    \/ \E c \in crates : \E m \in Members(c) : ReadMember(m)
    \/ EndOfArchive
    \/ \E closed \in BOOLEAN : CloseStreams(closed)
    \/ \E renamed \in BOOLEAN : Rename(renamed)
    \/ MemberIOError
    \/ Kill

SpecRepack == RepackInit /\ [][RepackNext]_vars

\* ".." and "." resolved against the parts before them; "escaped" when ".."
\* climbs above the start
RECURSIVE Resolve(_, _)
Resolve(parts, stack) ==
    IF parts = <<>> THEN stack
    ELSE IF Head(parts) = <<".", ".">>
         THEN IF stack = <<>> THEN <<"escaped">>
              ELSE Resolve(Tail(parts), SubSeq(stack, 1, Len(stack) - 1))
         ELSE Resolve(Tail(parts), Append(stack, Head(parts)))

\* the declared path, resolved, lies inside the package root
InsideRoot(name, crate_dir) ==
    LET r == Resolve(PathParts(name), <<>>) IN
    /\ ~IsAbsolute(name)
    /\ r # <<"escaped">>
    /\ Len(r) >= 1
    /\ r[1] = crate_dir

\* C10: when the member read last does not resolve to a path inside its
\* crate's package root, repack has failed with the path-escape error, the
\* member is not among the members written, and no archive is at the output
\* path.
C10_PathEscapeRejected ==
    (last # NoMember /\ ~InsideRoot(last.name, PackageDir(last.crate))) =>
        /\ rp = "raised" /\ rerr = "path_escape"
        /\ tarball # "complete"
        /\ \A i \in DOMAIN out :
               out[i].name # Prefix \o <<"/">> \o PathStr(PurePosixPath(last.name))

\* --------------------------------------------------------------------- main
\* the number of directories given on the command line
MaxDirs == 2

\* The directories of the filesystem, as resolved paths: the root, p, its
\* children p/m and p/n, and p/m/k.
Nodes == {<<>>, <<"p">>, <<"p", "m">>, <<"p", "n">>, <<"p", "m", "k">>}

\* base.parents: the nearest parent first, the root last
Parents(d) == [i \in 1..Len(d) |-> SubSeq(d, 1, Len(d) - i)]

\* the root tried first, the directory itself last
IterSelfAndParents_RootFirst(d) == [i \in 1..(Len(d) + 1) |-> SubSeq(d, 1, i - 1)]

\* iter_self_and_parents: yield base; yield from base.parents
IterSelfAndParents(d) == <<d>> \o Parents(d)

\* get_crates(cargo_lock) for the Cargo.lock a directory would hold
LockEntries(d) ==
    CASE d = <<"p", "m">>      -> <<"a", "b">>
      [] d = <<"p", "n">>      -> <<"a", "git">>
      [] d = <<"p", "m", "k">> -> <<"a">>
      [] d = <<"p">>           -> <<"b">>
      [] OTHER                 -> <<"git">>

\* frozenset(...)
FrozenSet(q) == {q[i] : i \in DOMAIN q}

\* crates = workspace.crates in place of the update
Update_Assign(acc, new) == new

\* crates.update(workspace.crates)
Update(acc, new) == acc \cup new

\* the loop left after its first directory
LoopDone_AfterFirst(i, n) == i > 1

\* for directory in args.directory has no directory left
LoopDone(i, n) == i > n

\* an exception of verify_crates that is swallowed
OnVerified_Ignored(verified) == "repack"

\* verify_crates returns and main goes on to repack_crates, or it raises
OnVerified(verified) == IF verified THEN "repack" ELSE "raised"

\* what reading <directory>/Cargo.toml and get_package_metadata can do
MetadataOutcomes == {"ok", "FileNotFoundError", "WorkspaceCargoTomlError"}

MainInit ==
    /\ directories \in UNION {[1..n -> Nodes] : n \in 1..MaxDirs}
    /\ locks \in SUBSET Nodes
    /\ mpc = "loop"
    /\ didx = 1
    /\ widx = 0
    /\ used = <<>>
    /\ pkg_metadata = 0
    /\ merr = "none"
    /\ log = <<>>
    /\ crates = {}
    /\ FetchIdle
    /\ StrategyIdle
    /\ RepackIdle

\* for directory in args.directory: get_workspace_root(directory) is called
ResolveStart ==
    /\ mpc = "loop"
    /\ ~LoopDone(didx, Len(directories))
    /\ mpc' = "walk"
    /\ widx' = 1
    /\ UNCHANGED <<crates, fetchVars, strategyVars, repackVars, directories, locks, didx, used,
                   pkg_metadata, merr, log>>

\* get_workspace_root, one base: its Cargo.lock opens and the call returns
\* (main then updates crates), or FileNotFoundError and the next base is
\* tried; with no base left RuntimeError is raised
WalkStep ==
    /\ mpc = "walk"
    /\ LET chain == IterSelfAndParents(directories[didx]) IN
       IF widx > Len(chain)
       THEN /\ mpc' = "raised"
            /\ merr' = "lock_not_found"
            /\ UNCHANGED <<crates, widx, used>>
       ELSE IF chain[widx] \in locks
            THEN /\ used' = Append(used, chain[widx])
                 /\ crates' = Update(crates, FrozenSet(LockEntries(chain[widx])))
                 /\ mpc' = "metadata"
                 /\ UNCHANGED <<widx, merr>>
            ELSE /\ widx' = widx + 1
                 /\ UNCHANGED <<crates, mpc, merr, used>>
    /\ UNCHANGED <<fetchVars, strategyVars, repackVars, directories, locks, didx, pkg_metadata,
                   log>>

\* (directory / "Cargo.toml").open, get_package_metadata, and the end of the
\* loop body
ReadMetadata(outcome) ==
    /\ mpc = "metadata"
    /\ IF outcome = "ok"
       THEN /\ pkg_metadata' = (IF pkg_metadata = 0 THEN didx ELSE pkg_metadata)
            /\ didx' = didx + 1
            /\ mpc' = "loop"
            /\ merr' = merr
       ELSE /\ mpc' = "return1"
            /\ merr' = outcome
            /\ UNCHANGED <<pkg_metadata, didx>>
    /\ UNCHANGED <<crates, fetchVars, strategyVars, repackVars, directories, locks, widx, used,
                   log>>

\* the loop is over: if pkg_metadata is None: return 1
AfterLoop ==
    /\ mpc = "loop"
    /\ LoopDone(didx, Len(directories))
    /\ IF pkg_metadata = 0
       THEN mpc' = "return1" /\ merr' = "no_metadata"
       ELSE mpc' = "mkdir" /\ merr' = merr
    /\ UNCHANGED <<crates, fetchVars, strategyVars, repackVars, directories, locks, didx, widx,
                   used, pkg_metadata, log>>

\* args.distdir.mkdir(parents=True, exist_ok=True)
MakeDistdir(made) ==
    /\ mpc = "mkdir"
    /\ IF made
       THEN /\ log' = Append(log, [call |-> "mkdir", arg |-> DistDir])
            /\ mpc' = "fetch"
            /\ merr' = merr
       ELSE /\ mpc' = "raised"
            /\ merr' = "mkdir"
            /\ log' = log
    /\ UNCHANGED <<crates, fetchVars, strategyVars, repackVars, directories, locks, didx, widx,
                   used, pkg_metadata>>

\* fetch_crates(crates, distdir=args.distdir) is called
MainFetchCall ==
    /\ mpc = "fetch"
    /\ FetchCratesStart
    /\ log' = Append(log, [call |-> "fetch", arg |-> crates])
    /\ mpc' = "fetching"
    /\ UNCHANGED <<crates, directories, locks, didx, widx, used, pkg_metadata, merr>>

\* fetch_crates returns, or its exception leaves main
MainFetchEnds ==
    /\ mpc = "fetching"
    /\ fc_result \in {"returned", "raised", "no_fetcher"}
    /\ IF fc_result = "returned"
       THEN mpc' = "verify" /\ merr' = merr
       ELSE mpc' = "raised" /\ merr' = "fetch"
    /\ UNCHANGED <<crates, fetchVars, strategyVars, repackVars, directories, locks, didx, widx,
                   used, pkg_metadata, log>>

\* verify_crates(crates, distdir=args.distdir) returns or raises
VerifyCrates(verified) ==
    /\ mpc = "verify"
    /\ log' = Append(log, [call |-> "verify", arg |-> crates])
    /\ mpc' = OnVerified(verified)
    /\ merr' = (IF verified THEN merr ELSE "verify")
    /\ UNCHANGED <<crates, fetchVars, strategyVars, repackVars, directories, locks, didx, widx,
                   used, pkg_metadata>>

\* repack_crates(crates, ...) is called
MainRepackCall ==
    /\ mpc = "repack"
    /\ RepackStart
    /\ log' = Append(log, [call |-> "repack", arg |-> crates])
    /\ mpc' = "repacking"
    /\ UNCHANGED <<crates, directories, locks, didx, widx, used, pkg_metadata, merr>>

\* repack_crates returns and main returns 0, or its exception leaves main
MainRepackEnds ==
    /\ mpc = "repacking"
    /\ rp \in {"returned", "raised"}
    /\ IF rp = "returned"
       THEN mpc' = "return0" /\ merr' = merr
       ELSE mpc' = "raised" /\ merr' = "repack"
    /\ UNCHANGED <<crates, fetchVars, strategyVars, repackVars, directories, locks, didx, widx,
                   used, pkg_metadata, log>>

\* the source archives in the cache of a whole run hold regular files named
\* <package root>/x
MainMembers(c) == {m \in Members(c) : m.type = "reg" /\ m.name = PackageDir(c) \o <<"/", "x">>}

MainNext ==
    \/ ResolveStart
    \/ WalkStep
    \/ \E o \in MetadataOutcomes : ReadMetadata(o)
    \/ AfterLoop
    \/ \E made \in BOOLEAN : MakeDistdir(made)
    \/ MainFetchCall
    \/ \E o \in FetcherOutcomes : TryNextFetcher(o)
    \/ NoFetcherFound
    \/ MainFetchEnds
    \/ \E verified \in BOOLEAN : VerifyCrates(verified)
    \/ MainRepackCall
    \/ \E opened \in BOOLEAN : NextCrate(opened)
    \/ \E c \in crates : \E m \in MainMembers(c) : ReadMember(m)
    \/ EndOfArchive
    \/ MemberIOError
    \/ \E closed \in BOOLEAN : CloseStreams(closed)
    \/ \E renamed \in BOOLEAN : Rename(renamed)
    \/ MainRepackEnds

SpecMain == MainInit /\ [][MainNext]_vars

\* C11: at every moment of repack_crates, a kill or an exception at any step
\* included, the file at the final output path is absent, the file that was
\* there before the call, or the complete archive; and the only step that
\* changes it is the one rename made after the tar and xz streams have closed
\* successfully, which puts the complete archive there.
C11_OutputAtomic ==
    /\ [](tarball \in {"absent", "old", "complete"})
    /\ [][tarball' # tarball =>
             /\ rp = "closed" /\ tmp = "complete"
             /\ rp' = "returned" /\ tarball' = "complete"]_vars

\* the process was killed after members had been written, with an earlier
\* file at the output path
C11_Witness ==
    /\ rp = "killed"
    /\ out # <<>>
    /\ tmp = "partial"
    /\ tarball = "old"

\* C12: when an exception has left repack_crates, the temporary file does not
\* exist.
C12_TempRemovedOnError ==
    rp = "raised" => tmp = "absent"

\* C13: the temporary file is created in the directory that contains the final
\* output path.
C13_TempInOutputDir ==
    rp # "idle" => tmp_dir = tarball_dir

\* the members of out that come from crate c
OutOf(c) == {i \in DOMAIN out : out[i].crate = c}

\* out[i] is the checksum manifest of its crate
IsManifest(e) ==
    /\ e.name = Prefix \o <<"/">> \o PackageDir(e.crate) \o <<"/", ".cargo-checksum.json">>
    /\ e.type = "reg"
    /\ e.content = Checksum(e.crate)

\* C15: after a successful repack, every file-backed dependency of the set
\* has its members under its own package root below the prefix, among them
\* exactly one checksum manifest prefix/packageRoot/.cargo-checksum.json that
\* carries its pinned checksum; a dependency that is not file-backed has no
\* member at all.
C15_OneSubtreePerFileCrate ==
    rp = "returned" =>
        \A c \in crates :
            IF IsFileCrate(c)
            THEN /\ Cardinality({i \in OutOf(c) : IsManifest(out[i])}) = 1
                 /\ \A i \in OutOf(c) :
                        LET parts == PathParts(out[i].name) IN
                        /\ Len(parts) >= 2
                        /\ parts[1] = Prefix
                        /\ parts[2] = PackageDir(c)
            ELSE OutOf(c) = {}

\* a set of a file-backed and a non-file-backed dependency was repacked, with
\* a member forwarded from the source archive
C15_Witness ==
    /\ rp = "returned"
    /\ crates = {"a", "git"}
    /\ Len(out) >= 2

\* C16: the members written are ordered by the dependency set and the source
\* archives alone: the dependencies come in ascending order of filename, each
\* as one run of members that its manifest ends; a step that reads a source
\* member appends at most that member, so a run keeps the order of its source
\* archive; and a finished repack has the run of every file-backed dependency.
C16_SortedMembers ==
    /\ [](/\ \A i \in 1..(Len(out) - 1) :
                 /\ \/ out[i].crate = out[i + 1].crate
                    \/ StrLess(Filename(out[i].crate), Filename(out[i + 1].crate))
                 /\ IsManifest(out[i]) <=> out[i + 1].crate # out[i].crate
          /\ (out # <<>> /\ rp \in {"closed", "returned"}) => IsManifest(out[Len(out)])
          /\ rp = "returned" => \A c \in FileCrates(crates) : OutOf(c) # {})
    /\ [][out' # out =>
             /\ Len(out') = Len(out) + 1
             /\ SubSeq(out', 1, Len(out)) = out
             /\ nread' = nread + 1 =>
                    /\ out'[Len(out')].crate = last'.crate
                    /\ out'[Len(out')].type = last'.type
                    /\ out'[Len(out')].name =
                           Prefix \o <<"/">> \o PathStr(PurePosixPath(last'.name))]_vars

\* two file-backed dependencies were repacked, each with a forwarded member
C16_Witness ==
    /\ rp = "returned"
    /\ crates = {"a", "b"}
    /\ Len(out) >= 4
    /\ out[1].crate = "a" /\ ~IsManifest(out[1])
    /\ out[Len(out)].crate = "b" /\ ~IsManifest(out[Len(out) - 1])

Calls == [i \in DOMAIN log |-> log[i].call]

\* C14: the calls of a run are a prefix of mkdir, fetch, verify, repack;
\* while fetch_crates runs nothing after it has been called; verification is
\* called only once fetch_crates has returned; repack_crates is entered only
\* after verification was called and did not fail; and when fetch or
\* verification has failed, repack_crates was never entered, no temporary
\* file exists, nothing was added to an archive and nothing is at the output
\* path.
C14_PhasesOrdered ==
    /\ Calls = SubSeq(<<"mkdir", "fetch", "verify", "repack">>, 1, Len(log))
    /\ mpc = "fetching" => Len(log) = 2
    /\ Len(log) >= 3 => fc_result = "returned"
    /\ rp # "idle" => Len(log) = 4 /\ merr \notin {"fetch", "verify"}
    /\ merr \in {"fetch", "verify"} =>
           /\ mpc = "raised"
           /\ Len(log) <= 3
           /\ rp = "idle" /\ tmp = "absent" /\ out = <<>> /\ tarball = "absent"

\* verification failed after a fetch that had returned
C14_Witness ==
    /\ mpc = "raised"
    /\ merr = "verify"
    /\ Len(log) = 3
    /\ fc_result = "returned"

\* the directories on the chain d, parent of d, ..., root
Ancestors(d) == {SubSeq(d, 1, k) : k \in 0..Len(d)}

\* those of them that hold a lockfile
WithLock(d) == Ancestors(d) \cap locks

\* C17: the lockfile each resolution used lies in a directory of the chain
\* start, parent, ..., root, and in the nearest of them that holds one (the
\* start itself if it does); its entries are in the dependency set; and the
\* resolution of a directory with no lockfile on its chain has failed with
\* the lockfile-not-found error, and only such a resolution has.
C17_NearestLockfile ==
    /\ \A i \in DOMAIN used :
           /\ used[i] \in WithLock(directories[i])
           /\ \A a \in WithLock(directories[i]) : Len(a) <= Len(used[i])
           /\ FrozenSet(LockEntries(used[i])) \subseteq crates
    /\ merr = "lock_not_found" =>
           /\ mpc = "raised"
           /\ WithLock(directories[didx]) = {}
    /\ \A i \in DOMAIN directories :
           WithLock(directories[i]) = {} =>
               /\ Len(used) < i
               /\ (didx = i /\ mpc \notin {"loop", "walk"}) =>
                      mpc = "raised" /\ merr = "lock_not_found"

\* p/m has no lockfile while its sibling p/n, its child p/m/k, its parent p
\* and the root have one: the parent's was used
C17_Witness ==
    /\ directories[1] = <<"p", "m">>
    /\ locks = {<<"p", "n">>, <<"p", "m", "k">>, <<"p">>, <<>>}
    /\ used # <<>>
    /\ used[1] = <<"p">>

\* the union of the dependency sets of the lockfiles nearest to the input
\* directories
UnionOfLocks ==
    UNION {FrozenSet(LockEntries(a)) :
              a \in {b \in locks : \E i \in DOMAIN directories :
                                      /\ b \in WithLock(directories[i])
                                      /\ \A c \in WithLock(directories[i]) : Len(c) <= Len(b)}}

\* C18: fetch_crates, verify_crates and repack_crates are each called at most
\* once, exactly once in a run that returns 0, each (and every fetcher) with
\* the union of the dependency sets of the input directories; the archive of
\* such a run has exactly one manifest for each file-backed dependency of the
\* union, shared or not.
C18_OncePerRunOverUnion ==
    /\ \A c \in {"fetch", "verify", "repack"} :
           /\ Cardinality({i \in DOMAIN log : log[i].call = c}) <= 1
           /\ mpc = "return0" => Cardinality({i \in DOMAIN log : log[i].call = c}) = 1
    /\ \A i \in DOMAIN log : log[i].call # "mkdir" => log[i].arg = UnionOfLocks
    /\ \A j \in DOMAIN invoked : invoked[j].crates = UnionOfLocks
    /\ mpc = "return0" =>
           /\ {out[i].crate : i \in DOMAIN out} = FileCrates(UnionOfLocks)
           /\ \A c \in FileCrates(UnionOfLocks) :
                  Cardinality({i \in DOMAIN out : out[i].crate = c /\ IsManifest(out[i])}) = 1

\* p/m and p/n, which share dependency a and have one more each: a run over
\* both returned 0 with three dependencies
C18_Witness ==
    /\ mpc = "return0"
    /\ used = << <<"p", "m">>, <<"p", "n">> >>
    /\ Len(LockEntries(used[1])) + Len(LockEntries(used[2])) = 4
    /\ Cardinality(crates) = 3
    /\ Cardinality(log[2].arg) = 3

\* C19: when an input directory has no lockfile on its chain, or reading
\* the package metadata has failed, nothing was called after the loop (no
\* cache directory made, no fetcher called, no temporary file, no output)
\* and a run that is over has failed; and whenever anything was called after
\* the loop, every input directory had been resolved before.
C19_FailsBeforeSideEffects ==
    /\ ( \/ \E i \in DOMAIN directories : WithLock(directories[i]) = {}
         \/ merr \in {"lock_not_found", "FileNotFoundError", "WorkspaceCargoTomlError",
                       "no_metadata"} ) =>
           /\ log = <<>>
           /\ fc_result = "idle" /\ invoked = <<>>
           /\ rp = "idle" /\ tmp = "absent" /\ tarball = "absent"
           /\ mpc \in {"loop", "walk", "metadata", "return1", "raised"}
    /\ merr \in {"lock_not_found", "FileNotFoundError", "WorkspaceCargoTomlError",
                  "no_metadata"} => mpc \in {"return1", "raised"}
    /\ log # <<>> =>
           /\ Len(used) = Len(directories)
           /\ didx = Len(directories) + 1
           /\ pkg_metadata # 0

\* the first directory was resolved, the second has no lockfile on its
\* chain: the run failed with nothing called
C19_Witness ==
    /\ mpc = "raised"
    /\ merr = "lock_not_found"
    /\ Len(used) = 1
    /\ crates # {}
    /\ log = <<>>

\* C21: a step that reads a member lying inside its package root adds, for a
\* directory, symbolic link or hard link, exactly one member with the path
\* prefix/<path of the member>, its type and no content; for a regular file
\* exactly one such member with the file's content; for any other type
\* nothing; and in each case no error is raised and the loop over the
\* members goes on.
C21_MemberForwarding ==
    [][(rp = "members" /\ nread' = nread + 1
            /\ InsideRoot(last'.name, PackageDir(last'.crate))) =>
          /\ rp' = "members" /\ rerr' = rerr /\ tmp' = tmp
          /\ IF last'.type \in {"dir", "sym", "lnk", "reg"}
             THEN /\ Len(out') = Len(out) + 1
                  /\ SubSeq(out', 1, Len(out)) = out
                  /\ LET e == out'[Len(out')] IN
                     /\ PathParts(e.name) = <<Prefix>> \o PathParts(last'.name)
                     /\ e.type = last'.type
                     /\ e.crate = last'.crate
                     /\ e.content = (IF last'.type = "reg" THEN "data" ELSE "none")
             ELSE out' = out]_vars

\* a hard link was forwarded without content, then a FIFO was passed over
\* and the loop is still running
C21_Witness ==
    /\ rp = "members"
    /\ nread = 2
    /\ last.type = "fifo"
    /\ Len(out) = 1
    /\ out[1].type = "lnk" /\ out[1].content = "none"

\* the units inside the async with block of an attempt
Holders == {u \in Units : pc[u] \in {"wait_limiter", "request", "stream"}}

\* C22: the free permits and the units inside an attempt's async with block
\* add up to the concurrency limit, so a unit in backoff (or ended) holds
\* none; when fetch has ended every permit is free; a permit is taken only by
\* a unit that enters an attempt, and given back only by a unit that leaves
\* one, to done, failed, backoff or cancelled.
C22_PermitsConserved ==
    /\ [](/\ sem_value >= 0
          /\ sem_value + Cardinality(Holders) = concurrency
          /\ Ended => sem_value = concurrency)
    /\ [][/\ sem_value' < sem_value =>
                /\ sem_value' = sem_value - 1
                /\ \E u \in Units : pc[u] = "wait_sem" /\ pc'[u] = "wait_limiter"
          /\ sem_value' > sem_value =>
                /\ sem_value' = sem_value + 1
                /\ \E u \in Units :
                       /\ u \in Holders
                       /\ pc'[u] \in {"done", "failed", "backoff", "cancelled"}]_vars

\* with one permit, a unit sleeps in backoff while another has the permit
\* and its request open
C22_Witness ==
    /\ concurrency = 1
    /\ sem_value = 0
    /\ \E u, v \in Units :
           /\ pc[u] = "backoff"
           /\ pc[v] \in {"request", "stream"}

\* what the except Exception handler does with the failed attempt of unit u
Handled(u) ==
    /\ part'[u] = "absent"
    /\ attempt'[u] = attempt[u]
    /\ IF attempt[u] < retries
       THEN pc'[u] = "backoff" /\ exc'[u] = exc[u]
       ELSE pc'[u] = "failed" /\ exc'[u].type = "DownloadError"

\* C23: an attempt that fails, whether by a retryable status, another error
\* status, a connection error, a .part file that cannot be opened, written
\* or moved, or a connection lost while streaming, leaves no .part file and
\* puts the unit into backoff while attempts remain, into failure with
\* DownloadError on the last attempt; a unit has failed only at its attempt
\* limit, and a backoff is followed by the next attempt (or a cancellation).
C23_FailureCauseIndependent ==
    /\ [](\A u \in Units :
             /\ pc[u] = "failed" => attempt[u] = retries /\ exc[u].type = "DownloadError"
             /\ pc[u] = "backoff" => attempt[u] < retries /\ part[u] = "absent")
    /\ [][\A u \in Units :
            /\ (pc[u] \in {"request", "stream"} /\ pc'[u] \in {"backoff", "failed"}) => Handled(u)
            /\ \A o \in {"retryable_status", "error_status", "connection_error"} :
                   \A opened \in BOOLEAN : Response(u, o, opened) => Handled(u)
            /\ Response(u, "ok", FALSE) => Handled(u)
            /\ \A cause \in {"connection_error", "disk_error"} :
                   StreamError(u, cause) => Handled(u)
            /\ StreamEnd(u, FALSE) => Handled(u)
            /\ (pc[u] = "backoff" /\ pc'[u] # "backoff") =>
                   \/ pc'[u] = "wait_sem" /\ attempt'[u] = attempt[u] + 1
                   \/ pc'[u] = "cancelled"]_vars

\* a unit failed its first attempt, was retried after the backoff and failed
\* for good at the limit of two attempts
C23_Witness ==
    /\ retries = 2
    /\ \E u \in Units :
           /\ pc[u] = "failed"
           /\ attempt[u] = 2
           /\ hist[u].requests = 2
           /\ part[u] = "absent"

====
